---- MODULE Spec2Model ----
(***************************************************************************)
(* lime-clear-stacks (src/main.py): find CloudFormation stacks by tag,     *)
(* list their S3 buckets and DynamoDB tables, drop the ones tagged for     *)
(* exclusion and empty the rest, or only report them in dry-run.           *)
(*                                                                         *)
(* The program is sequential.  Every SDK call the source makes is one step *)
(* of the model; the generators of get_stacks and get_resources are lazy,  *)
(* so a tag lookup of a resource happens when clear_buckets or             *)
(* clear_dynamo_tables pulls that resource, not before.                    *)
(***************************************************************************)
EXTENDS Integers, Sequences, FiniteSets, TLC

VARIABLES
    pc,             \* position of the program
    err,            \* "" or the kind of the exception that ended the run
    argv,           \* the parsed command line (NoArgv when run() is called directly)
    test_mode,      \* the module global test_mode
    tags_include,   \* run()'s tags_include
    tags_exclude,   \* run()'s tags_exclude
    aws,            \* the provider: stack pages, tags, resources, contents
    aws0,           \* the provider as it was when the run started (history)
    next_token,     \* get_stacks: the next_token argument of the innermost frame
    depth,          \* get_stacks: number of nested generator frames
    stacks,         \* get_stacks: stacks of the current page not yet yielded
    token,          \* get_stacks: res.get('NextToken') of the innermost frame
    stack,          \* run: the stack being processed
    buckets,        \* get_resources: bucket ids not yet pulled by clear_buckets
    dynamo_tables,  \* get_resources: table ids not yet pulled by clear_dynamo_tables
    cur,            \* bucket_name / table_name of the loop body being executed
    tag_token,      \* _get_resource_tags: the token argument of the innermost frame
    tag_depth,      \* _get_resource_tags: number of nested generator frames
    tag_acc,        \* aws_tags_to_set: tokens collected so far from _get_resource_tags
    primary_key,    \* clear_dynamo_tables: primary_key
    scan,           \* clear_dynamo_tables: scan['Items']
    calls,          \* every SDK call issued so far, in order
    out             \* every line printed so far, in order

vars == << pc, err, argv, test_mode, tags_include, tags_exclude, aws, aws0, next_token,
           depth, stacks, token, stack, buckets, dynamo_tables, cur, tag_token, tag_depth,
           tag_acc, primary_key, scan, calls, out >>

(***************************************************************************)
(* Bounds of the model.                                                    *)
(***************************************************************************)
\* Largest number of pages the stack listing is split into.
MaxPages == 2
\* Number of nested generator frames at which the interpreter raises
\* RecursionError (sys.getrecursionlimit(), scaled down).
RecursionLimit == 4

\* next_token = None (falsy)
NoToken == 0
NoArgv == [tags |-> <<>>, tags_exclude |-> <<>>, dry_run |-> FALSE, cli |-> FALSE]
None == "None"

Range(s) == {s[i] : i \in DOMAIN s}

RECURSIVE Flatten(_)
Flatten(ss) == IF ss = <<>> THEN <<>> ELSE Head(ss) \o Flatten(Tail(ss))

Tag(k, v) == [Key |-> k, Value |-> v]

(***************************************************************************)
(* Pure helpers of the source.                                             *)
(***************************************************************************)
\* Mutant: another separator between key and value.
aws_tags_to_set_eq(tags) == {t.Key \o "=" \o t.Value : t \in Range(tags)}

\* {'{Key}:{Value}'.format(**x) for x in tags}
aws_tags_to_set(tags) == {t.Key \o ":" \o t.Value : t \in Range(tags)}

\* (tag in target for tag in filter): one boolean per filter token
tag_match(filter, target) == [tag \in filter |-> tag \in target]

\* Python's all() and any() over the produced booleans
all(bs) == \A x \in DOMAIN bs : bs[x]
any(bs) == \E x \in DOMAIN bs : bs[x]

(***************************************************************************)
(* The provider (the collaborators behind cfn, s3 and dynamodb).           *)
(* aws.pages      the stack listing, as the pages describe_stacks returns  *)
(* aws.stackTags  Tags of each stack                                       *)
(* aws.resources  StackResources of each stack                             *)
(* aws.bucketTags TagSet of each bucket                                    *)
(* aws.tableTags  Tags of each table, as the pages the provider returns    *)
(* aws.schema     key_schema of each table                                 *)
(* aws.objects    the objects of each bucket                               *)
(* aws.items      the items of each table, as the pages scan returns       *)
(***************************************************************************)
StackNames == {"s1", "s2"}
BucketNames == {"b1", "b2", "b3"}
TableNames == {"t1", "t2"}

BucketType == "AWS::S3::Bucket"
TableType == "AWS::DynamoDB::Table"
OtherType == "AWS::Lambda::Function"

Resource(type, id) == [ResourceType |-> type, PhysicalResourceId |-> id]

\* s1 lists a resource of another type between its buckets; s2 lists a
\* table before its bucket.
StackResources ==
    [s \in StackNames |->
        IF s = "s1"
        THEN << Resource(BucketType, "b1"), Resource(OtherType, "o1"),
                Resource(BucketType, "b2") >>
        ELSE << Resource(TableType, "t1"), Resource(BucketType, "b3"),
                Resource(TableType, "t2") >>]

\* Pages of the stack listing: 1..MaxPages pages, a page may be empty, no
\* stack is listed twice.
StackPageOptions == { <<>>, <<"s1">>, <<"s2">>, <<"s1", "s2">>, <<"s2", "s1">> }
NoRepeat(s) == \A i, j \in DOMAIN s : i # j => s[i] # s[j]
Layouts ==
    { l \in UNION { [1..n -> StackPageOptions] : n \in 1..MaxPages } :
        NoRepeat(Flatten(l)) }

StackTagOptions ==
    { [s1 |-> s1t, s2 |-> s2t] :
        s1t \in { << Tag("env", "prod") >>,
                  << Tag("team", "a"), Tag("env", "prod") >> },
        s2t \in { << Tag("env", "dev") >>, << Tag("env", "prod") >> } }

\* b1 and b3 are untagged; b2 carries the protection tag, alone or after
\* another tag.
BucketTagOptions ==
    { [b1 |-> <<>>, b2 |-> b2t, b3 |-> <<>>] :
        b2t \in { << Tag("protected", "true") >>,
                  << Tag("owner", "x"), Tag("protected", "true") >> } }

\* The tags of t1 come in one page or in two; t2 is untagged.
TableTagOptions ==
    { [t1 |-> t1t, t2 |-> << <<>> >>] :
        t1t \in { << << Tag("owner", "x") >> >>,
                  << << Tag("protected", "true") >> >>,
                  << << Tag("owner", "x") >>, << Tag("protected", "true") >> >> } }

KeyDef(name, type) == [AttributeName |-> name, KeyType |-> type]
TableSchema ==
    [t \in TableNames |->
        IF t = "t1" THEN << KeyDef("pk", "HASH"), KeyDef("sk", "RANGE") >>
        ELSE << KeyDef("pk", "HASH") >>]

Item2(p, s, d) == [pk |-> p, sk |-> s, data |-> d]
Item1(p, d) == [pk |-> p, data |-> d]

\* The items of t1 fit in one scan page or need two.
TableItemOptions ==
    { [t1 |-> t1i, t2 |-> << << Item1("p9", "d9") >> >>] :
        t1i \in { << << Item2("p1", "s1", "d1"), Item2("p1", "s2", "d2") >> >>,
                  << << Item2("p1", "s1", "d1") >>, << Item2("p1", "s2", "d2") >> >> } }

BucketObjects == [b \in BucketNames |->
    IF b = "b1" THEN {"k1", "k2"} ELSE IF b = "b2" THEN {"k3"} ELSE {}]

Worlds ==
    { [pages |-> l, stackTags |-> st, resources |-> StackResources,
       bucketTags |-> bt, tableTags |-> tt, schema |-> TableSchema,
       objects |-> BucketObjects, items |-> ti] :
        l \in Layouts, st \in StackTagOptions, bt \in BucketTagOptions,
        tt \in TableTagOptions, ti \in TableItemOptions }

\* describe_stacks: the page the token names (the first without a token)
\* and the token of the page after it, if any.
DescribeStacks(a, tok) ==
    LET i == IF tok = NoToken THEN 1 ELSE tok
        page == a.pages[i]
    IN  [Stacks |-> [j \in 1..Len(page) |->
                        [StackName |-> page[j], Tags |-> a.stackTags[page[j]]]],
         NextToken |-> IF i < Len(a.pages) THEN i + 1 ELSE NoToken]

\* describe_stack_resources
DescribeStackResources(a, name) == [StackResources |-> a.resources[name]]

\* The provider knows a bucket or a table by its name; a call that names
\* anything else raises (NoSuchBucket, ResourceNotFoundException).
BucketExists(a, b) == b \in DOMAIN a.bucketTags
TableExists(a, t) == t \in DOMAIN a.tableTags

\* get_bucket_tagging
GetBucketTagging(a, b) == [TagSet |-> a.bucketTags[b]]

\* Table(name).table_arn
TableArn(t) == << "arn", t >>

\* list_tags_of_resource: the page the token names (the first without one)
ListTagsOfResource(a, arn, tok) ==
    LET pages == a.tableTags[arn[2]]
        i == IF tok = NoToken THEN 1 ELSE tok
    IN  [Tags |-> pages[i],
         NextToken |-> IF i < Len(pages) THEN i + 1 ELSE NoToken]

\* Table.scan(AttributesToGet=attrs) without ExclusiveStartKey: the first
\* page, projected on attrs, and the key to continue from, if any.
Project(item, attrs) == [x \in attrs |-> item[x]]
Scan(a, t, attrs) ==
    LET pages == a.items[t]
    IN  [Items |-> [j \in 1..Len(pages[1]) |-> Project(pages[1][j], Range(attrs))],
         LastEvaluatedKey |-> IF Len(pages) > 1 THEN 2 ELSE NoToken]

\* An item has the key k when it agrees with k on every attribute of k.
HasKey(item, k) == \A x \in DOMAIN k : x \in DOMAIN item /\ item[x] = k[x]

\* batch_write_item with the delete requests of keys
BatchDelete(a, t, keys) ==
    [a EXCEPT !.items[t] =
        [i \in DOMAIN @ |->
            SelectSeq(@[i], LAMBDA it : ~ \E k \in keys : HasKey(it, k))]]

\* Mutant: the objects of every bucket are deleted, not only those of b.
DeleteObjectsEverywhere(a, b, left) ==
    [a EXCEPT !.objects = [x \in DOMAIN @ |-> IF x = b THEN left ELSE {}]]

\* Mutant: the bucket itself is deleted (bucket.delete()).
DeleteBucket(a, b, left) ==
    [a EXCEPT !.objects[b] = {},
              !.resources = [s \in DOMAIN @ |->
                  SelectSeq(@[s], LAMBDA r : r.PhysicalResourceId # b)]]

\* Bucket(name).objects.all().delete(), after which left remains
DeleteObjects(a, b, left) == [a EXCEPT !.objects[b] = left]

(***************************************************************************)
(* Decisions of the source.                                                *)
(***************************************************************************)
\* Mutant: the token is not passed on.
stacks_request_none(tok) == NoToken

\* get_stacks, lines 40-43: the request carries the token when there is one
stacks_request(tok) == IF tok # NoToken THEN tok ELSE NoToken

\* Mutant: a stack qualifies when it carries any inclusion token.
stack_matches_any(include, st) == any(tag_match(include, aws_tags_to_set(st.Tags)))

\* get_stacks, lines 45-52: the inclusion filter of one stack
stack_matches(include, st) == all(tag_match(include, aws_tags_to_set(st.Tags)))

\* Mutant: the page is passed on unfiltered.
filter_stacks_none(include, res) == res.Stacks

\* get_stacks, lines 45-52: the stacks of a page that pass, in page order
filter_stacks(include, res) ==
    SelectSeq(res.Stacks, LAMBDA st : stack_matches(include, st))

\* _get_resource_tags, line 71: the request carries the ARN and nothing else
tags_request(tok) == NoToken

\* Mutant: the bucket's tokens are built with another separator.
get_s3_tags_eq(a, bucket_name) ==
    aws_tags_to_set_eq(GetBucketTagging(a, bucket_name).TagSet)

\* get_s3_tags, lines 62-66
get_s3_tags(a, bucket_name) == aws_tags_to_set(GetBucketTagging(a, bucket_name).TagSet)

\* Mutant: a resource is protected only when it carries every exclusion token.
keep_resource_all(exclude, tags) == ~ all(tag_match(exclude, tags))

\* get_resources, lines 94-101 and 104-111: the exclusion filter of one resource
keep_resource(exclude, tags) == ~ any(tag_match(exclude, tags))

\* Mutant: the ids of the type come out in reverse order.
ids_of_type_reversed(resources, type) ==
    LET sel == SelectSeq(resources, LAMBDA r : r.ResourceType = type)
    IN  [i \in 1..Len(sel) |-> sel[Len(sel) + 1 - i].PhysicalResourceId]

\* Mutant: the resource type is not compared.
ids_of_any_type(resources, type) ==
    [i \in 1..Len(resources) |-> resources[i].PhysicalResourceId]

\* get_resources, lines 91-92 and 103: the ids of the resources of one type
ids_of_type(resources, type) ==
    LET sel == SelectSeq(resources, LAMBDA r : r.ResourceType = type)
    IN  [i \in 1..Len(sel) |-> sel[i].PhysicalResourceId]

\* Mutant: run clears the tables of a stack before its buckets.
run_next_tables_first(phase) ==
    IF phase = "get_resources" THEN "clear_tables"
    ELSE IF phase = "clear_tables" THEN "clear_buckets"
    ELSE "yield_stack"

\* run, lines 140-142: get_resources, then clear_buckets, then
\* clear_dynamo_tables, then the next stack
run_next(phase) ==
    IF phase = "get_resources" THEN "clear_buckets"
    ELSE IF phase = "clear_buckets" THEN "clear_tables"
    ELSE "yield_stack"

\* Mutant: the dry-run test is inverted.
mutating_inverted(tm) == tm

\* Mutant: the dry-run test is missing.
mutating_always(tm) == TRUE

\* clear_buckets line 118, clear_dynamo_tables line 125: if not test_mode
mutating(tm) == ~ tm

\* Mutant: only the first attribute of the key schema is taken.
key_names_hash(schema) == << schema[1].AttributeName >>

\* clear_dynamo_tables line 127
key_names(schema) == [i \in 1..Len(schema) |-> schema[i].AttributeName]

Call(op, target, arg, ok) == [op |-> op, target |-> target, arg |-> arg, ok |-> ok]
Line(kind, name) == << kind, name >>

\* Mutant: the progress line of a resource is not printed.
report_none(o, kind, name) == o

\* clear_buckets line 117, clear_dynamo_tables line 124: print, before and
\* outside the dry-run test
report(o, kind, name) == Append(o, Line(kind, name))

(***************************************************************************)
(* Initial states: the program started from the command line (main), or    *)
(* run() called with the empty inclusion filter, which main cannot pass.   *)
(***************************************************************************)
TagArgs == { <<>>, << "env:prod" >>, << "env:prod", "team:a" >> }
ExcludeArgs == { <<>>, << "protected:true" >>, << "keep:yes", "protected:true" >> }

Locals0 ==
    /\ err = ""
    /\ next_token = NoToken
    /\ depth = 0
    /\ stacks = <<>>
    /\ token = NoToken
    /\ stack = None
    /\ buckets = <<>>
    /\ dynamo_tables = <<>>
    /\ cur = None
    /\ tag_token = NoToken
    /\ tag_depth = 0
    /\ tag_acc = {}
    /\ primary_key = <<>>
    /\ scan = <<>>
    /\ calls = <<>>
    /\ out = <<>>

InitMain ==
    /\ pc = "main"
    /\ argv \in { [tags |-> t, tags_exclude |-> x, dry_run |-> d, cli |-> TRUE] :
                    t \in TagArgs, x \in ExcludeArgs, d \in BOOLEAN }
    /\ test_mode = FALSE
    /\ tags_include = {}
    /\ tags_exclude = {}
    /\ aws \in Worlds
    /\ aws0 = aws
    /\ Locals0

InitRun ==
    /\ pc = "get_stacks"
    /\ argv = NoArgv
    /\ test_mode = FALSE
    /\ tags_include = {}
    /\ tags_exclude \in { Range(x) : x \in ExcludeArgs }
    /\ aws \in Worlds
    /\ aws0 = aws
    /\ Locals0

Init == InitMain \/ InitRun

(***************************************************************************)
(* Steps.                                                                  *)
(***************************************************************************)
Raise(kind) == pc' = "error" /\ err' = kind

\* Mutant: the exception of a provider call is caught and the run goes on.
Fails_swallowed(op, target, arg) ==
    /\ calls' = Append(calls, Call(op, target, arg, FALSE))
    /\ UNCHANGED << pc, err >>

\* A provider call that raises: the call is logged, the exception is not
\* caught anywhere and ends the run.
Fails(op, target, arg) ==
    /\ calls' = Append(calls, Call(op, target, arg, FALSE))
    /\ Raise("ClientError")

\* Mutant: --tags is optional (required=False) and its default '' is used.
missing_required_never(a) == FALSE

\* _get_args, line 159: --tags has required=True and nargs='+'
missing_required(a) == a.tags = <<>>

\* main, lines 166-176, with _get_args: --tags is required
Main ==
    /\ pc = "main"
    /\ IF missing_required(argv)
       THEN /\ Raise("SystemExit")
            /\ UNCHANGED << test_mode, tags_include, tags_exclude, out >>
       ELSE /\ test_mode' = argv.dry_run
            /\ out' = Append(out, Line("Mode", IF argv.dry_run THEN "dry-run" ELSE "remove"))
            /\ tags_include' = Range(argv.tags)
            /\ tags_exclude' = Range(argv.tags_exclude)
            /\ pc' = "get_stacks"
            /\ err' = err
    /\ UNCHANGED << aws0, argv, aws, next_token, depth, stacks, token, stack, buckets,
                    dynamo_tables, cur, tag_token, tag_depth, tag_acc, primary_key, scan, calls >>

\* get_stacks, lines 40-54: one listing call and the filter of its page
GetStacks ==
    /\ pc = "get_stacks"
    /\ LET req == stacks_request(next_token)
           res == DescribeStacks(aws, req)
       IN  \/ /\ calls' = Append(calls, Call("describe_stacks", None, req, TRUE))
              /\ stacks' = filter_stacks(tags_include, res)
              /\ token' = res.NextToken
              /\ depth' = depth + 1
              /\ pc' = "yield_stack"
              /\ err' = err
           \/ /\ Fails("describe_stacks", None, req)
              /\ UNCHANGED << stacks, token, depth >>
    /\ UNCHANGED << aws0, argv, test_mode, tags_include, tags_exclude, aws, next_token,
                    stack, buckets, dynamo_tables, cur, tag_token, tag_depth, tag_acc,
                    primary_key, scan, out >>

\* get_stacks, lines 56-60, and run, lines 134-138: the next stack of the
\* page is yielded and announced; after the last one the next page is
\* requested by a nested generator, or the run ends.
\* Mutant: the stacks of a page are never handed out.
more_stacks_never(stks) == FALSE

\* get_stacks, lines 56-57: the loop over the page's matching stacks hands
\* out the next one while there is one, before the token is looked at.
more_stacks(stks) == stks # <<>>

YieldStack ==
    /\ pc = "yield_stack"
    /\ IF more_stacks(stacks)
       THEN /\ stack' = Head(stacks)
            /\ stacks' = Tail(stacks)
            /\ out' = Append(out, Line("Stack", Head(stacks).StackName))
            /\ pc' = "get_resources"
            /\ UNCHANGED << err, next_token >>
       ELSE /\ IF token # NoToken
               THEN IF depth >= RecursionLimit
                    THEN Raise("RecursionError") /\ UNCHANGED next_token
                    ELSE pc' = "get_stacks" /\ next_token' = token /\ err' = err
               ELSE pc' = "done" /\ UNCHANGED << err, next_token >>
            /\ stack' = None
            /\ UNCHANGED << stacks, out >>
    /\ UNCHANGED << aws0, argv, test_mode, tags_include, tags_exclude, aws, depth, token,
                    buckets, dynamo_tables, cur, tag_token, tag_depth, tag_acc, primary_key,
                    scan, calls >>

\* get_resources, lines 88-113: one listing call; the two generators are
\* built and nothing is pulled from them yet.
GetResources ==
    /\ pc = "get_resources"
    /\ LET res == DescribeStackResources(aws, stack.StackName)
       IN  \/ /\ calls' = Append(calls,
                     Call("describe_stack_resources", stack.StackName, None, TRUE))
              /\ buckets' = ids_of_type(res.StackResources, BucketType)
              /\ dynamo_tables' = ids_of_type(res.StackResources, TableType)
              /\ pc' = run_next("get_resources")
              /\ err' = err
           \/ /\ Fails("describe_stack_resources", stack.StackName, None)
              /\ UNCHANGED << buckets, dynamo_tables >>
    /\ UNCHANGED << aws0, argv, test_mode, tags_include, tags_exclude, aws, next_token,
                    depth, stacks, token, stack, cur, tag_token, tag_depth, tag_acc,
                    primary_key, scan, out >>

\* clear_buckets, line 116: the bucket generator is exhausted
BucketsDone ==
    /\ pc = "clear_buckets"
    /\ buckets = <<>>
    /\ pc' = run_next("clear_buckets")
    /\ UNCHANGED << aws0, err, argv, test_mode, tags_include, tags_exclude, aws,
                    next_token, depth, stacks, token, stack, buckets,
                    dynamo_tables, cur, tag_token, tag_depth, tag_acc, primary_key, scan,
                    calls, out >>

\* clear_buckets pulls the next bucket: get_s3_tags (lines 62-66) and the
\* exclusion filter (lines 94-101); a bucket that passes is reported
\* (line 117) and, unless in dry-run, handed to the delete.
NextBucket ==
    /\ pc = "clear_buckets"
    /\ buckets # <<>>
    /\ LET b == Head(buckets)
           tags == get_s3_tags(aws, b)
       IN  \/ /\ BucketExists(aws, b)
              /\ calls' = Append(calls, Call("get_bucket_tagging", b, None, TRUE))
              /\ buckets' = Tail(buckets)
              /\ err' = err
              /\ IF keep_resource(tags_exclude, tags)
                 THEN /\ out' = report(out, "Bucket", b)
                      /\ IF mutating(test_mode)
                         THEN pc' = "delete_objects" /\ cur' = b
                         ELSE pc' = "clear_buckets" /\ cur' = cur
                 ELSE UNCHANGED << out, pc, cur >>
           \/ /\ Fails("get_bucket_tagging", b, None)
              /\ UNCHANGED << buckets, out, cur >>
    /\ UNCHANGED << aws0, argv, test_mode, tags_include, tags_exclude, aws, next_token,
                    depth, stacks, token, stack, dynamo_tables, tag_token, tag_depth,
                    tag_acc, primary_key, scan >>

\* clear_buckets, lines 119-120: bucket.objects.all().delete().  When the
\* call raises, any part of the objects may already be gone.
DeleteBucketObjects ==
    /\ pc = "delete_objects"
    /\ \/ /\ calls' = Append(calls, Call("objects.delete", cur, None, TRUE))
          /\ aws' = DeleteObjects(aws, cur, {})
          /\ pc' = "clear_buckets"
          /\ err' = err
       \/ /\ Fails("objects.delete", cur, None)
          /\ \E left \in SUBSET aws.objects[cur] : aws' = DeleteObjects(aws, cur, left)
    /\ cur' = IF pc' = "error" THEN cur ELSE None
    /\ UNCHANGED << aws0, argv, test_mode, tags_include, tags_exclude, next_token, depth,
                    stacks, token, stack, buckets, dynamo_tables, tag_token, tag_depth,
                    tag_acc, primary_key, scan, out >>

\* clear_dynamo_tables, line 123: the table generator is exhausted and run
\* asks get_stacks for the next stack.
TablesDone ==
    /\ pc = "clear_tables"
    /\ dynamo_tables = <<>>
    /\ pc' = run_next("clear_tables")
    /\ UNCHANGED << aws0, err, argv, test_mode, tags_include, tags_exclude, aws,
                    next_token, depth, stacks, token, stack, buckets,
                    dynamo_tables, cur, tag_token, tag_depth, tag_acc, primary_key, scan,
                    calls, out >>

\* clear_dynamo_tables pulls the next table: get_dynamo_tags, line 82,
\* resolves the ARN of the table.
NextTable ==
    /\ pc = "clear_tables"
    /\ dynamo_tables # <<>>
    /\ LET t == Head(dynamo_tables)
       IN  \/ /\ TableExists(aws, t)
              /\ calls' = Append(calls, Call("table_arn", t, None, TRUE))
              /\ cur' = t
              /\ dynamo_tables' = Tail(dynamo_tables)
              /\ tag_token' = NoToken
              /\ tag_depth' = 0
              /\ tag_acc' = {}
              /\ pc' = "list_tags"
              /\ err' = err
           \/ /\ Fails("table_arn", t, None)
              /\ UNCHANGED << cur, dynamo_tables, tag_token, tag_depth, tag_acc >>
    /\ UNCHANGED << aws0, argv, test_mode, tags_include, tags_exclude, aws, next_token,
                    depth, stacks, token, stack, buckets, primary_key, scan, out >>

\* _get_resource_tags, lines 69-80, inside aws_tags_to_set (line 83): one
\* tag-listing call; its tags are collected; with a NextToken a nested
\* generator is started, without one the tag set is complete and the
\* exclusion filter (lines 104-111), the report (line 124) and the dry-run
\* test (line 125) follow.
ListTags ==
    /\ pc = "list_tags"
    /\ LET arn == TableArn(cur)
           req == tags_request(tag_token)
           res == ListTagsOfResource(aws, arn, req)
           tags == tag_acc \cup aws_tags_to_set(res.Tags)
       IN  \/ /\ calls' = Append(calls, Call("list_tags_of_resource", cur, req, TRUE))
              /\ IF res.NextToken # NoToken
                 THEN /\ tag_acc' = tags
                      /\ tag_token' = res.NextToken
                      /\ tag_depth' = tag_depth + 1
                      /\ IF tag_depth + 1 >= RecursionLimit
                         THEN Raise("RecursionError")
                         ELSE pc' = "list_tags" /\ err' = err
                      /\ UNCHANGED << out, cur >>
                 ELSE /\ tag_acc' = {}
                      /\ tag_token' = NoToken
                      /\ tag_depth' = 0
                      /\ err' = err
                      /\ IF keep_resource(tags_exclude, tags)
                         THEN /\ out' = report(out, "Table", cur)
                              /\ IF mutating(test_mode)
                                 THEN pc' = "key_schema" /\ cur' = cur
                                 ELSE pc' = "clear_tables" /\ cur' = None
                         ELSE pc' = "clear_tables" /\ cur' = None /\ out' = out
           \/ /\ Fails("list_tags_of_resource", cur, req)
              /\ UNCHANGED << tag_acc, tag_token, tag_depth, out, cur >>
    /\ UNCHANGED << aws0, argv, test_mode, tags_include, tags_exclude, aws, next_token,
                    depth, stacks, token, stack, buckets, dynamo_tables,
                    primary_key, scan >>

\* clear_dynamo_tables, lines 126-127: the key schema of the table
KeySchema ==
    /\ pc = "key_schema"
    /\ \/ /\ calls' = Append(calls, Call("key_schema", cur, None, TRUE))
          /\ primary_key' = key_names(aws.schema[cur])
          /\ pc' = "scan"
          /\ err' = err
       \/ /\ Fails("key_schema", cur, None)
          /\ UNCHANGED primary_key
    /\ UNCHANGED << aws0, argv, test_mode, tags_include, tags_exclude, aws, next_token,
                    depth, stacks, token, stack, buckets, dynamo_tables, cur,
                    tag_token, tag_depth, tag_acc, scan, out >>

\* clear_dynamo_tables, line 128: one scan call; only scan['Items'] is kept
ScanTable ==
    /\ pc = "scan"
    /\ LET res == Scan(aws, cur, primary_key)
       IN  \/ /\ calls' = Append(calls, Call("scan", cur, primary_key, TRUE))
              /\ scan' = res.Items
              /\ pc' = "batch_delete"
              /\ err' = err
           \/ /\ Fails("scan", cur, primary_key)
              /\ UNCHANGED scan
    /\ UNCHANGED << aws0, argv, test_mode, tags_include, tags_exclude, aws, next_token,
                    depth, stacks, token, stack, buckets, dynamo_tables, cur,
                    tag_token, tag_depth, tag_acc, primary_key, out >>

\* clear_dynamo_tables, lines 129-131: a delete request for every scanned
\* item, sent by the batch writer.  When the writer raises, any part of the
\* requests may already have been applied.
BatchDeleteItems ==
    /\ pc = "batch_delete"
    /\ \/ /\ calls' = Append(calls, Call("batch_writer", cur, scan, TRUE))
          /\ aws' = BatchDelete(aws, cur, Range(scan))
          /\ pc' = "clear_tables"
          /\ err' = err
          /\ cur' = None
          /\ primary_key' = <<>>
          /\ scan' = <<>>
       \/ /\ scan # <<>>
          /\ Fails("batch_writer", cur, scan)
          /\ \E done \in SUBSET Range(scan) : aws' = BatchDelete(aws, cur, done)
          /\ UNCHANGED << cur, primary_key, scan >>
    /\ UNCHANGED << aws0, argv, test_mode, tags_include, tags_exclude, next_token, depth,
                    stacks, token, stack, buckets, dynamo_tables, tag_token,
                    tag_depth, tag_acc, out >>

Next ==
    \/ Main
    \/ GetStacks
    \/ YieldStack
    \/ GetResources
    \/ BucketsDone
    \/ NextBucket
    \/ DeleteBucketObjects
    \/ TablesDone
    \/ NextTable
    \/ ListTags
    \/ KeySchema
    \/ ScanTable
    \/ BatchDeleteItems

Spec == Init /\ [][Next]_vars

\* The run continues as long as it has a step to take.
FairSpec == Spec /\ WF_vars(Next)

(***************************************************************************)
(* Vocabulary of the properties.                                           *)
(***************************************************************************)
\* The tokens of a tag list, as the specification defines them (key:value).
TokensOf(tags) == {t.Key \o ":" \o t.Value : t \in Range(tags)}

\* The tokens of all the tag pages of a table.
TableTokens(a, t) == TokensOf(Flatten(a.tableTags[t]))

\* The stack that owns a resource.
OwnerOf(a, r) ==
    CHOOSE s \in StackNames :
        \E i \in DOMAIN a.resources[s] : a.resources[s][i].PhysicalResourceId = r

MutatingOps == {"objects.delete", "batch_writer"}
ReadOps == {"describe_stacks", "describe_stack_resources", "get_bucket_tagging",
            "table_arn", "list_tags_of_resource", "key_schema", "scan"}

\* The resources that have been reported, in order, and those that have
\* received a mutating call.
Reported == SelectSeq(out, LAMBDA l : l[1] \in {"Bucket", "Table"})
ReportedIds == {Reported[i][2] : i \in DOMAIN Reported}
MutatedIds == {calls[i].target : i \in {j \in DOMAIN calls : calls[j].op \in MutatingOps}}
ClearedIds ==
    {calls[i].target : i \in {j \in DOMAIN calls :
                                calls[j].op \in MutatingOps /\ calls[j].ok}}
SameContents(r) ==
    IF r \in BucketNames THEN aws.objects[r] = aws0.objects[r]
    ELSE aws.items[r] = aws0.items[r]
NoCallFailed == \A i \in DOMAIN calls : calls[i].ok
Ended == pc \in {"done", "error"}

\* The run is a dry-run: the flag is set, or about to be set by main.
DryRun == test_mode \/ (pc = "main" /\ argv.dry_run)

(***************************************************************************)
(* C1: in a dry-run no mutating call is issued and every bucket and table  *)
(* holds what it held at the start.                                        *)
(***************************************************************************)
C1_DryRunNoMutation ==
    DryRun =>
        /\ MutatedIds = {}
        /\ aws.objects = aws0.objects
        /\ aws.items = aws0.items

\* A dry-run that ended after reporting a bucket that holds objects and a
\* table that holds items.
C1_Witness ==
    /\ test_mode
    /\ pc = "done"
    /\ "b1" \in ReportedIds /\ aws.objects["b1"] # {}
    /\ "t1" \in ReportedIds /\ Flatten(aws.items["t1"]) # <<>>

(***************************************************************************)
(* C2: a bucket or table whose own tags contain a token of the exclusion   *)
(* filter is never reported and never receives a delete call.              *)
(***************************************************************************)
C2_ExclusionProtects ==
    /\ \A b \in BucketNames :
         TokensOf(aws0.bucketTags[b]) \cap tags_exclude # {}
            => b \notin ReportedIds /\ b \notin MutatedIds
    /\ \A t \in TableNames :
         TableTokens(aws0, t) \cap tags_exclude # {}
            => t \notin ReportedIds /\ t \notin MutatedIds

\* A run that removes data ended; b2 carries an exclusion token next to
\* another tag and t1 carries one, the filter has a second token that
\* neither carries, and both were looked up; the unprotected b1 was cleared.
C2_Witness ==
    /\ pc = "done" /\ ~ test_mode
    /\ tags_exclude = {"keep:yes", "protected:true"}
    /\ TokensOf(aws0.bucketTags["b2"]) = {"owner:x", "protected:true"}
    /\ TableTokens(aws0, "t1") = {"protected:true"}
    /\ \E i \in DOMAIN calls : calls[i].op = "get_bucket_tagging" /\ calls[i].target = "b2"
    /\ \E i \in DOMAIN calls : calls[i].op = "list_tags_of_resource" /\ calls[i].target = "t1"
    /\ "b1" \in ClearedIds /\ "t2" \in ClearedIds

(***************************************************************************)
(* C3: a resource is reported or receives a delete call only if its stack  *)
(* carries every token of the inclusion filter; the resources of the other *)
(* stacks are never modified.                                              *)
(***************************************************************************)
StackQualifies(s) == tags_include \subseteq TokensOf(aws0.stackTags[s])

C3_InclusionGate ==
    /\ \A r \in ReportedIds \cup MutatedIds : StackQualifies(OwnerOf(aws0, r))
    /\ \A r \in BucketNames \cup TableNames :
         ~ StackQualifies(OwnerOf(aws0, r)) => SameContents(r)

\* A run that removes data ended; both stacks were listed, s1 carries both
\* inclusion tokens and s2 only one; s1's bucket was cleared.
C3_Witness ==
    /\ pc = "done" /\ ~ test_mode
    /\ tags_include = {"env:prod", "team:a"}
    /\ Range(Flatten(aws0.pages)) = {"s1", "s2"}
    /\ StackQualifies("s1")
    /\ TokensOf(aws0.stackTags["s2"]) = {"env:prod"}
    /\ "b1" \in ClearedIds

(***************************************************************************)
(* C4: a run changes nothing but the objects inside buckets and the items  *)
(* inside tables: every call is a read or a delete of contents, and the    *)
(* stacks, their resources and all tags stay as they were.                 *)
(***************************************************************************)
C4_OnlyContentsChange ==
    /\ \A i \in DOMAIN calls : calls[i].op \in ReadOps \cup MutatingOps
    /\ aws.pages = aws0.pages
    /\ aws.stackTags = aws0.stackTags
    /\ aws.resources = aws0.resources
    /\ aws.bucketTags = aws0.bucketTags
    /\ aws.tableTags = aws0.tableTags
    /\ aws.schema = aws0.schema

\* A run that ended after emptying a bucket and a table.
C4_Witness ==
    /\ pc = "done"
    /\ aws.objects["b1"] = {} /\ aws0.objects["b1"] # {}
    /\ Flatten(aws.items["t1"]) = <<>> /\ Flatten(aws0.items["t1"]) # <<>>

(***************************************************************************)
(* C5: when the clear of a table has returned in a run that removes data,  *)
(* every item the table held is gone, whatever the number of scan pages.   *)
(***************************************************************************)
C5_ScanDrained ==
    \A t \in TableNames : t \in ClearedIds => Flatten(aws.items[t]) = <<>>

(***************************************************************************)
(* C6: the tag lookup of a table never repeats a request (neither a token  *)
(* nor the first page), ends without exhausting the interpreter's stack,   *)
(* and a table that was kept carries no exclusion token on any page.       *)
(***************************************************************************)
TagCalls(t) ==
    SelectSeq(calls, LAMBDA c : c.op = "list_tags_of_resource" /\ c.target = t)

C6_TagPagination ==
    /\ \A t \in TableNames :
         \A i, j \in DOMAIN TagCalls(t) : i # j => TagCalls(t)[i].arg # TagCalls(t)[j].arg
    /\ err # "RecursionError"
    /\ \A t \in TableNames \cap ReportedIds : TableTokens(aws0, t) \cap tags_exclude = {}

(***************************************************************************)
(* C7: stack discovery yields the stacks that carry every inclusion token, *)
(* each once, page after page and in the order of each page; with an empty *)
(* inclusion filter these are all the stacks of all the pages.             *)
(***************************************************************************)
StackLines == SelectSeq(out, LAMBDA l : l[1] = "Stack")
Yielded == [i \in 1..Len(StackLines) |-> StackLines[i][2]]
Listed == Flatten(aws0.pages)
Expected == SelectSeq(Listed, StackQualifies)
IsPrefix(s, t) == Len(s) <= Len(t) /\ \A i \in DOMAIN s : s[i] = t[i]

C7_DiscoveryExact ==
    /\ IsPrefix(Yielded, Expected)
    /\ pc = "done" => Yielded = Expected
    /\ pc = "done" /\ tags_include = {} => Yielded = Listed

\* The listing came in two pages of one stack each, s2 before s1, both
\* qualify for a non-empty filter, and the run ended.
C7_Witness ==
    /\ pc = "done"
    /\ aws0.pages = << << "s2" >>, << "s1" >> >>
    /\ tags_include = {"env:prod"}
    /\ Yielded = << "s2", "s1" >>

(***************************************************************************)
(* C8: the first listing call carries no token, every later one carries    *)
(* the token the page before it returned, no token is passed twice, and    *)
(* after a page without a token no listing call follows.                   *)
(***************************************************************************)
Listing == SelectSeq(calls, LAMBDA c : c.op = "describe_stacks")

C8_ListingTokens ==
    /\ \A k \in DOMAIN Listing :
         IF k = 1 THEN Listing[k].arg = NoToken
         ELSE /\ Listing[k].arg # NoToken
              /\ Listing[k].arg = DescribeStacks(aws0, Listing[k-1].arg).NextToken
    /\ \A i, j \in DOMAIN Listing : i # j => Listing[i].arg # Listing[j].arg
    /\ Len(Listing) <= Len(aws0.pages)
    /\ pc = "done" => Len(Listing) = Len(aws0.pages)

\* A listing of two pages was walked to its end.
C8_Witness ==
    /\ pc = "done"
    /\ Len(aws0.pages) = 2
    /\ Len(Listing) = 2
    /\ Listing[2].arg # NoToken

(***************************************************************************)
(* C9: one stack tagged env:prod owns the untagged bucket b1 and the       *)
(* bucket b2 tagged protected:true; the run that removes data with         *)
(* include = {env:prod} and exclude = {protected:true} goes on until it    *)
(* is done unless a provider call fails, and when it is done b1 is empty   *)
(* and b2 holds what it held.                                              *)
(***************************************************************************)
C9_Scenario ==
    /\ argv.cli /\ argv.tags = << "env:prod" >>
    /\ argv.tags_exclude = << "protected:true" >> /\ ~ argv.dry_run
    /\ Listed = << "s1" >>
    /\ aws0.stackTags["s1"] = << Tag("env", "prod") >>
    /\ aws0.bucketTags["b1"] = <<>>
    /\ aws0.bucketTags["b2"] = << Tag("protected", "true") >>

C9_ClearsB1Only ==
    C9_Scenario =>
        /\ pc = "done" => /\ aws.objects["b1"] = {}
                          /\ aws.objects["b2"] = aws0.objects["b2"]
        /\ pc = "error" => ~ NoCallFailed
        /\ pc \notin {"done", "error"} => ENABLED Next

\* The scenario ended: b1 held objects and is empty, b2 still holds its own.
C9_Witness ==
    /\ C9_Scenario
    /\ pc = "done"
    /\ aws0.objects["b1"] # {} /\ aws.objects["b1"] = {}
    /\ aws.objects["b2"] # {}

(***************************************************************************)
(* C10: when a run that removes data has ended and no provider call has    *)
(* failed, every bucket and table of a listed stack that carries every     *)
(* inclusion token, itself carrying no exclusion token, has been cleared.  *)
(***************************************************************************)
OwnTokens(r) ==
    IF r \in BucketNames THEN TokensOf(aws0.bucketTags[r]) ELSE TableTokens(aws0, r)

Eligible(r) ==
    /\ OwnerOf(aws0, r) \in Range(Listed)
    /\ StackQualifies(OwnerOf(aws0, r))
    /\ OwnTokens(r) \cap tags_exclude = {}

C10_SweepComplete ==
    (Ended /\ err # "SystemExit" /\ ~ test_mode /\ NoCallFailed) =>
        \A r \in BucketNames \cup TableNames : Eligible(r) => r \in ClearedIds

(***************************************************************************)
(* C11: in every step, a bucket report or bucket delete call of a stack    *)
(* happens only while that stack has no table report, schema read, scan or *)
(* table delete yet, and every report and call for a stack happens while   *)
(* that stack is the one discovered last.                                  *)
(***************************************************************************)
TableOps == {"key_schema", "scan", "batch_writer"}
StackOfTarget(x) == IF x \in StackNames THEN x ELSE OwnerOf(aws0, x)

TableEventOf(s) ==
    \/ \E i \in DOMAIN out : out[i][1] = "Table" /\ OwnerOf(aws0, out[i][2]) = s
    \/ \E i \in DOMAIN calls :
          calls[i].op \in TableOps /\ OwnerOf(aws0, calls[i].target) = s

C11_Step ==
    LET newLine == Len(out') = Len(out) + 1
        line == out'[Len(out')]
        newCall == Len(calls') = Len(calls) + 1
        call == calls'[Len(calls')]
        latest == Yielded'[Len(Yielded')]
    IN  /\ newLine /\ line[1] = "Bucket" => ~ TableEventOf(OwnerOf(aws0, line[2]))
        /\ newCall /\ call.op = "objects.delete"
              => ~ TableEventOf(OwnerOf(aws0, call.target))
        /\ newLine /\ line[1] \in {"Bucket", "Table"}
              => Yielded' # <<>> /\ OwnerOf(aws0, line[2]) = latest
        /\ newCall /\ call.target # None
              => Yielded' # <<>> /\ StackOfTarget(call.target) = latest

C11_Ordering == [][C11_Step]_vars

\* Both stacks were processed to the end in a run that removes data: s2,
\* which lists a table before its bucket, had its bucket and tables cleared.
C11_Witness ==
    /\ pc = "done" /\ ~ test_mode
    /\ Len(Yielded) = 2
    /\ {"b1", "b3", "t1", "t2"} \subseteq ClearedIds

(***************************************************************************)
(* C12: once a provider call has failed the run is over with an error, the *)
(* failed call is the last call issued, and every resource that has not    *)
(* received a delete call holds what it held at the start.                 *)
(***************************************************************************)
C12_FailFast ==
    ~ NoCallFailed =>
        /\ pc = "error" /\ err = "ClientError"
        /\ \A i \in DOMAIN calls : ~ calls[i].ok => i = Len(calls)
        /\ ~ ENABLED Next
        /\ \A r \in BucketNames \cup TableNames : r \notin MutatedIds => SameContents(r)

\* The scan of t1 failed after b3 had been cleared: t1 still holds its items.
C12_Witness ==
    /\ pc = "error" /\ calls # <<>>
    /\ calls[Len(calls)].op = "scan" /\ ~ calls[Len(calls)].ok
    /\ "b3" \in ClearedIds
    /\ Flatten(aws.items["t1"]) # <<>> /\ aws.items["t1"] = aws0.items["t1"]

(***************************************************************************)
(* C13: for a table with a composite primary key whose items fit in one    *)
(* scan page, the delete requests of its clear are, one per item, the      *)
(* (partition key, sort key) pairs of the items, holding the key           *)
(* attributes and nothing else.                                            *)
(***************************************************************************)
KeyAttrs(t) == {aws0.schema[t][i].AttributeName : i \in DOMAIN aws0.schema[t]}
KeyOf(t, item) == [x \in KeyAttrs(t) |-> item[x]]

C13_KeysOnly ==
    \A i \in DOMAIN calls :
        LET t == calls[i].target
            keys == calls[i].arg
        IN  (calls[i].op = "batch_writer"
                /\ Len(aws0.schema[t]) = 2 /\ Len(aws0.items[t]) = 1)
            => /\ Len(keys) = Len(aws0.items[t][1])
               /\ Range(keys) = {KeyOf(t, it) : it \in Range(aws0.items[t][1])}
               /\ \A k \in Range(keys) : DOMAIN k = KeyAttrs(t)
               /\ Cardinality(Range(keys)) = Len(keys)

\* The clear of t1 (key pk, sk; two items with a data attribute, one scan
\* page) has returned.
C13_Witness ==
    /\ Len(aws0.items["t1"]) = 1 /\ Len(aws0.items["t1"][1]) = 2
    /\ "t1" \in ClearedIds
    /\ Flatten(aws.items["t1"]) = <<>>

(***************************************************************************)
(* C14: no resource is reported twice, only resources that pass the        *)
(* exclusion filter in a qualifying stack are reported, a resource that    *)
(* has received a mutating call has been reported, and when the run is     *)
(* done, dry-run or not, every such resource has its line.                 *)
(***************************************************************************)
C14_Reporting ==
    /\ \A i, j \in DOMAIN Reported : i # j => Reported[i][2] # Reported[j][2]
    /\ \A i \in DOMAIN Reported :
         /\ Eligible(Reported[i][2])
         /\ Reported[i][1] = (IF Reported[i][2] \in BucketNames THEN "Bucket" ELSE "Table")
    /\ MutatedIds \subseteq ReportedIds
    /\ pc = "done" =>
         \A r \in BucketNames \cup TableNames : Eligible(r) => r \in ReportedIds

\* A dry-run over both stacks is done: the unprotected resources have their
\* line, the protected bucket has none.
C14_Witness ==
    /\ pc = "done" /\ test_mode
    /\ ReportedIds = {"b1", "b3", "t1", "t2"}
    /\ Len(Reported) = 4
    /\ ~ Eligible("b2")

(***************************************************************************)
(* C15: started from the command line without an inclusion tag, the        *)
(* program ends with the argument error before any provider call; a run    *)
(* started from the command line never has an empty inclusion filter.      *)
(***************************************************************************)
C15_NoTagsFailsFast ==
    argv.cli =>
        /\ argv.tags = <<>> =>
              /\ pc \in {"main", "error"}
              /\ pc = "error" => err = "SystemExit"
              /\ calls = <<>>
              /\ aws = aws0
        /\ (pc # "main" /\ err # "SystemExit") => tags_include # {}

\* The command line had no inclusion tag and the program has ended.
C15_Witness ==
    /\ argv.cli /\ argv.tags = <<>>
    /\ pc = "error" /\ err = "SystemExit"
    /\ calls = <<>> /\ out = <<>>

(***************************************************************************)
(* C16, as claimed: once a resource of a stack has received a mutating     *)
(* call, the tags of every bucket and table of that stack have been looked *)
(* up; and when a tag lookup of a resource has failed, no resource of its  *)
(* stack has been modified.                                                *)
(***************************************************************************)
TagLookupOps == {"get_bucket_tagging", "table_arn", "list_tags_of_resource"}

ResourcesOf(s) ==
    {aws0.resources[s][i].PhysicalResourceId : i \in DOMAIN aws0.resources[s]}
        \cap (BucketNames \cup TableNames)

LookedUp(r) ==
    \E i \in DOMAIN calls :
        /\ calls[i].target = r /\ calls[i].ok
        /\ calls[i].op = (IF r \in BucketNames THEN "get_bucket_tagging"
                          ELSE "list_tags_of_resource")

OtherIds ==
    UNION { {aws0.resources[s][i].PhysicalResourceId :
                i \in {j \in DOMAIN aws0.resources[s] :
                        aws0.resources[s][j].ResourceType \notin {BucketType, TableType}}} :
            s \in StackNames }

C17_OthersDropped ==
    \A o \in OtherIds :
        /\ \A i \in DOMAIN calls : calls[i].target # o
        /\ \A i \in DOMAIN out : out[i][2] # o

\* s1, which lists o1 between b1 and b2, was processed to the end: the
\* bucket before o1 was cleared and the bucket after it was looked up.
C17_Witness ==
    /\ pc = "done" /\ OtherIds = {"o1"}
    /\ "b1" \in ClearedIds
    /\ LookedUp("b2")

(***************************************************************************)
(* C18: within one stack the buckets are reported and cleared in the order *)
(* of the stack's resource list, and so are the tables; the excluded ones  *)
(* are left out and the others keep their relative order.                  *)
(***************************************************************************)
KindOfType(type) == IF type = BucketType THEN "Bucket" ELSE "Table"

\* The ids of one type in the resource list of s, without the excluded ones.
Survivors(s, type) ==
    LET sel == SelectSeq(aws0.resources[s], LAMBDA r : r.ResourceType = type)
        ids == [i \in 1..Len(sel) |-> sel[i].PhysicalResourceId]
    IN  SelectSeq(ids, LAMBDA r : OwnTokens(r) \cap tags_exclude = {})

ReportedOf(s, type) ==
    LET sel == SelectSeq(out, LAMBDA l : l[1] = KindOfType(type) /\ OwnerOf(aws0, l[2]) = s)
    IN  [i \in 1..Len(sel) |-> sel[i][2]]

MutatedOf(s, type) ==
    LET sel == SelectSeq(calls, LAMBDA c :
                   /\ c.op = (IF type = BucketType THEN "objects.delete" ELSE "batch_writer")
                   /\ OwnerOf(aws0, c.target) = s)
    IN  [i \in 1..Len(sel) |-> sel[i].target]

C18_EmissionOrder ==
    \A s \in StackNames : \A type \in {BucketType, TableType} :
        /\ IsPrefix(ReportedOf(s, type), Survivors(s, type))
        /\ IsPrefix(MutatedOf(s, type), Survivors(s, type))
        /\ (pc = "done" /\ s \in Range(Yielded)) =>
              /\ ReportedOf(s, type) = Survivors(s, type)
              /\ ~ test_mode => MutatedOf(s, type) = Survivors(s, type)

\* Both stacks were cleared to the end: of s1's buckets b1, b2 the excluded
\* b2 was left out, and s2's tables were cleared in the order t1, t2.
C18_Witness ==
    /\ pc = "done" /\ ~ test_mode
    /\ tags_exclude = {"protected:true"}
    /\ MutatedOf("s1", BucketType) = << "b1" >>
    /\ ReportedOf("s2", TableType) = << "t1", "t2" >>
    /\ MutatedOf("s2", TableType) = << "t1", "t2" >>

(***************************************************************************)
(* C19: when a run has ended without a failed provider call, the sequence  *)
(* of reported resources is the one fixed by the provider's state and the  *)
(* two filters alone, whatever the dry-run flag; a run that removes data   *)
(* has issued its mutating calls on exactly that sequence, a dry-run on    *)
(* none.  Hence a dry-run and a run that removes data, started on the same *)
(* provider state with the same filters, report the same sequence.         *)
(***************************************************************************)
IdsOf(s, type) ==
    LET sel == SelectSeq(aws0.resources[s], LAMBDA r : r.ResourceType = type)
    IN  [i \in 1..Len(sel) |-> sel[i].PhysicalResourceId]

\* The buckets and tables in the order in which a run pulls them.
PullOrder ==
    Flatten([i \in 1..Len(Expected) |->
                IdsOf(Expected[i], BucketType) \o IdsOf(Expected[i], TableType)])

\* The tag lookup of a table whose tags span several pages never returns.
LookupAborts(r) == r \in TableNames /\ Len(aws0.tableTags[r]) > 1

RECURSIVE UpToAbort(_)
UpToAbort(seq) ==
    IF seq = <<>> \/ LookupAborts(Head(seq)) THEN <<>>
    ELSE << Head(seq) >> \o UpToAbort(Tail(seq))

\* The reference: a function of aws0 and the filters, not of test_mode.
PreviewOf == SelectSeq(UpToAbort(PullOrder), LAMBDA r : OwnTokens(r) \cap tags_exclude = {})

ReportedSeq == [i \in 1..Len(Reported) |-> Reported[i][2]]
MutatedSeq ==
    LET sel == SelectSeq(calls, LAMBDA c : c.op \in MutatingOps)
    IN  [i \in 1..Len(sel) |-> sel[i].target]

C19_PreviewFidelity ==
    (Ended /\ err # "SystemExit" /\ NoCallFailed) =>
        /\ ReportedSeq = PreviewOf
        /\ MutatedSeq = (IF test_mode THEN <<>> ELSE ReportedSeq)

\* A dry-run over both stacks has ended after reporting four resources and
\* leaving out the protected bucket.
C19_Witness ==
    /\ pc = "done" /\ test_mode /\ NoCallFailed
    /\ tags_exclude = {"protected:true"}
    /\ ReportedSeq = << "b1", "b3", "t1", "t2" >>
    /\ MutatedSeq = <<>>

(***************************************************************************)
(* C20: when a stack-listing call carrying a continuation token is in the  *)
(* call log, every matching stack of the page before it has, earlier in    *)
(* the log, had its resources listed, the tags of each of its buckets and  *)
(* tables looked up, and (unless the run is a dry-run) a clear operation   *)
(* issued on each resource that no exclusion token protects; each such     *)
(* resource has been reported.  This holds as well when that listing call  *)
(* is the one that failed.                                                 *)
(***************************************************************************)
ListingAt == {i \in DOMAIN calls : calls[i].op = "describe_stacks"}
PageOfCall(i) == Cardinality({j \in ListingAt : j <= i})

Before(i, op, target) ==
    \E j \in 1..(i-1) : calls[j].op = op /\ calls[j].target = target /\ calls[j].ok

ProcessedBefore(i, s) ==
    /\ Before(i, "describe_stack_resources", s)
    /\ \A r \in ResourcesOf(s) :
         /\ Before(i, IF r \in BucketNames THEN "get_bucket_tagging"
                      ELSE "list_tags_of_resource", r)
         /\ OwnTokens(r) \cap tags_exclude = {} =>
              /\ r \in ReportedIds
              /\ ~ test_mode =>
                   Before(i, IF r \in BucketNames THEN "objects.delete"
                             ELSE "batch_writer", r)

C20_LazyPages ==
    \A i \in ListingAt :
        calls[i].arg # NoToken =>
            \A k \in 1..(PageOfCall(i) - 1) :
                \A s \in Range(aws0.pages[k]) :
                    StackQualifies(s) => ProcessedBefore(i, s)

\* The listing call for the second page has failed after the only matching
\* stack of the first page was emptied.
C20_Witness ==
    /\ pc = "error" /\ err = "ClientError" /\ ~ test_mode
    /\ calls # <<>>
    /\ calls[Len(calls)].op = "describe_stacks"
    /\ calls[Len(calls)].arg # NoToken
    /\ ~ calls[Len(calls)].ok
    /\ aws0.pages[1] = << "s1" >>
    /\ aws.objects["b1"] = {} /\ aws0.objects["b1"] # {}
    /\ ProcessedBefore(Len(calls), "s1")

====
